---- MODULE Spec2Model ----
(***************************************************************************)
(* Model of service_worker.js: the background push handler, the push       *)
(* registration flow (main), the event-stream flow (serverSentEvent) and   *)
(* the key decoder urlBase64ToUint8Array.                                  *)
(*                                                                         *)
(* JavaScript strings that the code only concatenates are TLA+ strings;    *)
(* strings the code inspects character by character (base64 text) are      *)
(* sequences of one-character strings.  A JavaScript object is the         *)
(* sequence of its <<key, value>> properties in insertion order.           *)
(***************************************************************************)
EXTENDS Integers, Sequences, FiniteSets, TLC

VARIABLES
    b64,            \* one run of urlBase64ToUint8Array: input, stage, result
    worker,         \* background context: push events, display requests, log
    mains,          \* the invocations of main, in order of their click
    subscription,   \* state.subscription (expando on the #state element)
    text,           \* text of the #state element (textContent / innerText)
    detailsText,    \* details.textContent
    userId,         \* value of the #userId input
    updates,        \* registration.update() promises, one per call
    sources,        \* the urls an EventSource has been opened on
    arrived,        \* history: every event.data handed to an onmessage handler
    lastWrite,      \* history: last text written by main, and Len(arrived) then
    returned        \* history: the invocation of main that returned last, and
                    \* the messages of the failures of its awaited calls

vars == <<b64, worker, mains, subscription, text, detailsText, userId,
          updates, sources, arrived, lastWrite, returned>>

(***************************************************************************)
(* Bounds of the model.                                                    *)
(***************************************************************************)
MaxBytes == 3
MaxPush == 3
MaxMain == 2
MaxMainPage == 1
MaxMsgs == 2

(***************************************************************************)
(* Small helpers on sequences.                                             *)
(***************************************************************************)
Range(s) == {s[i] : i \in 1..Len(s)}

SeqsUpTo(S, n) == UNION {[1..k -> S] : k \in 0..n}

RECURSIVE Repeat(_, _)
Repeat(c, n) == IF n <= 0 THEN <<>> ELSE <<c>> \o Repeat(c, n - 1)

(***************************************************************************)
(* urlBase64ToUint8Array (lines 27-38) and window.atob.                    *)
(***************************************************************************)
Base64Alphabet ==
    <<"A","B","C","D","E","F","G","H","I","J","K","L","M",
      "N","O","P","Q","R","S","T","U","V","W","X","Y","Z",
      "a","b","c","d","e","f","g","h","i","j","k","l","m",
      "n","o","p","q","r","s","t","u","v","w","x","y","z",
      "0","1","2","3","4","5","6","7","8","9","+","/">>

\* index (0..63) of a character of the standard alphabet
Sextet(c) == (CHOOSE i \in 1..64 : Base64Alphabet[i] = c) - 1

\* String.prototype.replace(/x/g, y) on a sequence of characters
ReplaceAll(s, from, to) == [i \in 1..Len(s) |-> IF s[i] = from THEN to ELSE s[i]]

\* atob, step 2 of forgiving-base64 decode: when the length is a multiple of
\* four, drop one or two trailing "=".
StripPadding(s) ==
    IF Len(s) % 4 = 0 /\ Len(s) > 0 /\ s[Len(s)] = "="
    THEN IF s[Len(s) - 1] = "="
         THEN SubSeq(s, 1, Len(s) - 2)
         ELSE SubSeq(s, 1, Len(s) - 1)
    ELSE s

\* the bytes a run of sextets stands for; 12 left-over bits lose their last
\* four, 18 left-over bits their last two
RECURSIVE DecodeSextets(_)
DecodeSextets(q) ==
    IF Len(q) >= 4
    THEN LET n == q[1] * 262144 + q[2] * 4096 + q[3] * 64 + q[4]
         IN  <<n \div 65536, (n \div 256) % 256, n % 256>>
                 \o DecodeSextets(SubSeq(q, 5, Len(q)))
    ELSE IF Len(q) = 3
    THEN LET n == (q[1] * 4096 + q[2] * 64 + q[3]) \div 4
         IN  <<n \div 256, n % 256>>
    ELSE IF Len(q) = 2
    THEN <<(q[1] * 64 + q[2]) \div 16>>
    ELSE <<>>

\* window.atob: the char codes of the decoded binary string, or a throw
Atob(s) ==
    LET t == StripPadding(s)
    IN  IF Len(t) % 4 = 1 \/ \E i \in 1..Len(t) : t[i] \notin Range(Base64Alphabet)
        THEN [ok |-> FALSE, data |-> <<>>]
        ELSE [ok |-> TRUE,
              data |-> DecodeSextets([i \in 1..Len(t) |-> Sextet(t[i])])]

\* mutant: the url alphabet is not translated
urlBase64ToUint8ArrayNoReplace(base64String) ==
    LET padding == Repeat("=", (4 - (Len(base64String) % 4)) % 4)
        rawData == Atob(base64String \o padding)
    IN  [ok |-> rawData.ok,
         bytes |-> [i \in 1..Len(rawData.data) |-> rawData.data[i] % 256]]

urlBase64ToUint8Array(base64String) ==
    LET padding == Repeat("=", (4 - (Len(base64String) % 4)) % 4)
        base64 == ReplaceAll(ReplaceAll(base64String \o padding, "-", "+"),
                             "_", "/")
        rawData == Atob(base64)
    IN  [ok |-> rawData.ok,
         bytes |-> [i \in 1..Len(rawData.data) |-> rawData.data[i] % 256]]

(***************************************************************************)
(* The base64url encoding of RFC 4648, section 5: what the round trip of   *)
(* urlBase64ToUint8Array is measured against.                              *)
(***************************************************************************)
UrlAlphabet == ReplaceAll(ReplaceAll(Base64Alphabet, "+", "-"), "/", "_")

RECURSIVE EncodeBase64Url(_)
EncodeBase64Url(b) ==
    IF Len(b) >= 3
    THEN LET n == b[1] * 65536 + b[2] * 256 + b[3]
         IN  <<UrlAlphabet[(n \div 262144) + 1],
               UrlAlphabet[((n \div 4096) % 64) + 1],
               UrlAlphabet[((n \div 64) % 64) + 1],
               UrlAlphabet[(n % 64) + 1]>> \o EncodeBase64Url(SubSeq(b, 4, Len(b)))
    ELSE IF Len(b) = 2
    THEN LET n == (b[1] * 256 + b[2]) * 4
         IN  <<UrlAlphabet[(n \div 4096) + 1],
               UrlAlphabet[((n \div 64) % 64) + 1],
               UrlAlphabet[(n % 64) + 1], "=">>
    ELSE IF Len(b) = 1
    THEN LET n == b[1] * 16
         IN  <<UrlAlphabet[(n \div 64) + 1], UrlAlphabet[(n % 64) + 1], "=", "=">>
    ELSE <<>>

Unpadded(s) == SelectSeq(s, LAMBDA c : c # "=")

ByteValues == {0, 1, 128, 251, 255}

B64Idle == [stage |-> "input", bytes |-> <<>>, padded |-> FALSE, input |-> <<>>,
            ok |-> FALSE, output |-> <<>>]

InitB64 ==
    \E b \in SeqsUpTo(ByteValues, MaxBytes), p \in BOOLEAN :
        b64 = [B64Idle EXCEPT !.bytes = b, !.padded = p,
                 !.input = IF p THEN EncodeBase64Url(b)
                                ELSE Unpadded(EncodeBase64Url(b))]

\* one call of urlBase64ToUint8Array on the encoded key
Decode ==
    /\ b64.stage = "input"
    /\ LET r == urlBase64ToUint8Array(b64.input)
       IN  b64' = [b64 EXCEPT !.stage = "decoded", !.ok = r.ok, !.output = r.bytes]
    /\ UNCHANGED <<worker, mains, subscription, text, detailsText, userId,
                   updates, sources, arrived, lastWrite, returned>>

(***************************************************************************)
(* JavaScript values.                                                      *)
(***************************************************************************)
Undefined == [t |-> "undefined"]
Null == [t |-> "null"]
Str(s) == [t |-> "string", s |-> s]
Obj(props) == [t |-> "object", props |-> props]

HasKey(props, k) == \E i \in 1..Len(props) : props[i][1] = k

\* o.k on an object: the property's value, or undefined
Get(o, k) ==
    IF HasKey(o.props, k)
    THEN o.props[CHOOSE i \in 1..Len(o.props) : o.props[i][1] = k][2]
    ELSE Undefined

\* a thrown or rejected Error: line 61 and line 78 test instanceof Error
Err(name, message) == [instanceOfError |-> TRUE, name |-> name, message |-> message]

(***************************************************************************)
(* The background context: the "push" listener (lines 9-19).               *)
(***************************************************************************)
Notes == {Obj(<< <<"title", Str("t1")>>, <<"body", Str("b1")>> >>),
          Obj(<< <<"body", Str("b2")>>, <<"title", Str("t2")>> >>)}

\* what a push message can carry: nothing, text that is no JSON, or JSON text
Payloads == {[kind |-> "absent"], [kind |-> "malformed"]}
                \cup {[kind |-> "json", value |-> v] : v \in Notes \cup {Null}}

WellFormed(p) == p.kind = "json" /\ p.value \in Notes

\* event.data.json() (line 11): event.data is null when no payload came
EventDataJson(p) ==
    IF p.kind = "absent"
    THEN [ok |-> FALSE, error |-> Err("TypeError", "event.data is null")]
    ELSE IF p.kind = "malformed"
    THEN [ok |-> FALSE, error |-> Err("SyntaxError", "JSON.parse: unexpected character")]
    ELSE [ok |-> TRUE, value |-> p.value]

\* lines 12-15 up to the call: the title and the options handed to
\* showNotification; reading a property of null throws
NotificationRequestSwapped(data) ==
    IF data.t = "null"
    THEN [ok |-> FALSE, error |-> Err("TypeError", "data is null")]
    ELSE [ok |-> TRUE, title |-> Get(data, "body"), body |-> Get(data, "title")]

NotificationRequest(data) ==
    IF data.t = "null"
    THEN [ok |-> FALSE, error |-> Err("TypeError", "data is null")]
    ELSE [ok |-> TRUE, title |-> Get(data, "title"), body |-> Get(data, "body")]

\* lines 16-18: the catch block logs the error
Logged(w, e, error) == [w EXCEPT !.log = Append(@, [ev |-> e, error |-> error.name])]

\* mutant: the promise of showNotification is not awaited inside the try
ShowFailedNotAwaited(w, e, error) == [w EXCEPT !.unhandled = Append(@, e)]

\* a rejection of the awaited showNotification lands in the catch block
ShowFailed(w, e, error) == Logged(w, e, error)

InitWorker ==
    worker = [events |-> <<>>, requests |-> <<>>, shown |-> <<>>, log |-> <<>>,
              unhandled |-> <<>>]

\* the platform dispatches a push event; the listener runs to its first await
PushReceived(p) ==
    /\ Len(worker.events) < MaxPush
    /\ LET e == Len(worker.events) + 1
           parsed == EventDataJson(p)
           req == NotificationRequest(parsed.value)
       IN  IF ~parsed.ok
           THEN worker' = Logged([worker EXCEPT !.events =
                                     Append(@, [payload |-> p, pc |-> "done"])],
                                 e, parsed.error)
           ELSE IF ~req.ok
           THEN worker' = Logged([worker EXCEPT !.events =
                                     Append(@, [payload |-> p, pc |-> "done"])],
                                 e, req.error)
           ELSE worker' = [worker EXCEPT
                             !.events = Append(@, [payload |-> p, pc |-> "awaitShow"]),
                             !.requests = Append(@, [ev |-> e, title |-> req.title,
                                                     body |-> req.body])]
    /\ UNCHANGED <<b64, mains, subscription, text, detailsText, userId,
                   updates, sources, arrived, lastWrite, returned>>

\* showNotification resolves: the platform displays the notification
ShowResolved(e) ==
    /\ e \in 1..Len(worker.events)
    /\ worker.events[e].pc = "awaitShow"
    /\ LET r == CHOOSE r \in Range(worker.requests) : r.ev = e
       IN  worker' = [worker EXCEPT !.events[e].pc = "done",
                                    !.shown = Append(@, r)]
    /\ UNCHANGED <<b64, mains, subscription, text, detailsText, userId,
                   updates, sources, arrived, lastWrite, returned>>

\* showNotification rejects (no permission, no active registration)
ShowRejected(e) ==
    /\ e \in 1..Len(worker.events)
    /\ worker.events[e].pc = "awaitShow"
    /\ worker' = ShowFailed([worker EXCEPT !.events[e].pc = "done"], e,
                            Err("TypeError", "No notification permission"))
    /\ UNCHANGED <<b64, mains, subscription, text, detailsText, userId,
                   updates, sources, arrived, lastWrite, returned>>

(***************************************************************************)
(* JSON.stringify, JSON.parse and the object literal of lines 72-75.       *)
(***************************************************************************)
\* what JSON text keeps of a value: properties holding undefined are dropped
RECURSIVE Serializable(_)
Serializable(v) ==
    IF v.t = "object"
    THEN LET kept == SelectSeq(v.props, LAMBDA p : p[2].t # "undefined")
         IN  Obj([i \in 1..Len(kept) |-> <<kept[i][1], Serializable(kept[i][2])>>])
    ELSE v

\* JSON.stringify(v): JSON text, or undefined (no text at all) for undefined
JsonStringify(v) ==
    IF v.t = "undefined" THEN Undefined ELSE [t |-> "json", v |-> Serializable(v)]

\* JSON.parse(x): x is turned into a string first, and "undefined" is no JSON
JsonParse(x) ==
    IF x.t = "json"
    THEN [ok |-> TRUE, value |-> x.v]
    ELSE [ok |-> FALSE,
          error |-> Err("SyntaxError", "\"undefined\" is not valid JSON")]

\* defining property p on an object: a key that exists keeps its place
Define(props, p) ==
    IF HasKey(props, p[1])
    THEN [i \in 1..Len(props) |-> IF props[i][1] = p[1] THEN p ELSE props[i]]
    ELSE Append(props, p)

\* { ...src } spread after the properties already defined
RECURSIVE Spread(_, _)
Spread(props, src) ==
    IF src = <<>> THEN props
    ELSE Spread(Define(props, Head(src)), Tail(src))

\* mutant: the user_id property is left out of the literal
RegisterBodyNoUser(uid, parsed) == Obj(Spread(<<>>, parsed.props))

\* lines 72-75: { user_id: <input value>, ...<parsed subscription> }
RegisterBody(uid, parsed) ==
    Obj(Spread(<< <<"user_id", Str(uid)>> >>, parsed.props))

(***************************************************************************)
(* The page: main (lines 54-82), subscribeUserToPush (lines 44-52),        *)
(* fetchVapidKeys (lines 40-42) and serverSentEvent (lines 84-89).         *)
(***************************************************************************)
\* values of the #userId input: empty as loaded, or typed
UserIds == {"", "u1"}

Msgs == {"a", "b"}

\* bodies of GET /vapid.json: a decodable key, an undecodable one, no key
VapidResponses ==
    {Obj(<< <<"publicKey", [t |-> "chars", s |-> <<"-", "_", "8">>]>> >>),
     Obj(<< <<"publicKey", [t |-> "chars", s |-> <<"A">>]>> >>),
     Obj(<<>>)}

\* a PushSubscription, by the members its toJSON() gives
PushSubscription(endpoint) ==
    Obj(<< <<"endpoint", Str(endpoint)>>,
           <<"expirationTime", Null>>,
           <<"keys", Obj(<< <<"p256dh", Str("p")>>, <<"auth", Str("a")>> >>)>> >>)

Subscriptions == {PushSubscription("e1"), PushSubscription("e2")}

\* lines 61-63 and 78-80: the catch blocks
Catch(error, txt) == IF error.instanceOfError THEN error.message ELSE txt

\* mutant: the awaited subscription is stored only when none is stored yet
StoredSubscriptionKeepsFirst(old, s) == IF old.t = "undefined" THEN s ELSE old

\* line 58: state.subscription = await subscribeUserToPush(keys)
StoredSubscription(old, s) == s

\* mutant: the new message is put in front, without the newline
OnMessagePrepend(txt, data) == data \o txt

\* line 87: state.textContent = (state.textContent ?? "") + "\n" + event.data
OnMessage(txt, data) == txt \o "\n" \o data

\* line 49: applicationServerKey: urlBase64ToUint8Array(vapidKeys.publicKey)
ApplicationServerKey(vapidKeys) ==
    LET publicKey == Get(vapidKeys, "publicKey")
    IN  IF publicKey.t = "undefined"
        THEN [ok |-> FALSE,
              error |-> Err("TypeError", "Cannot read properties of undefined")]
        ELSE LET r == urlBase64ToUint8Array(publicKey.s)
             IN  IF r.ok THEN [ok |-> TRUE, bytes |-> r.bytes]
                 ELSE [ok |-> FALSE,
                       error |-> Err("InvalidCharacterError",
                                     "The string to be decoded is not correctly encoded")]

InitPage ==
    /\ mains = <<>>
    /\ subscription = Undefined
    /\ text = ""
    /\ detailsText = Str("")
    /\ userId = ""
    /\ updates = [pending |-> 0, unhandled |-> 0]
    /\ sources = {}
    /\ arrived = <<>>
    /\ lastWrite = [text |-> "", n |-> 0]
    /\ returned = [i |-> 0, failed |-> <<>>]

Init == b64 = B64Idle /\ InitWorker /\ InitPage

\* an invocation before its first await and after its return: its frame
\* holds nothing
Frame == [pc |-> "done", keys |-> Undefined, sub |-> <<>>, body |-> <<>>,
          uid |-> <<>>, failed |-> <<>>]

Awaiting(i, pc) == i \in 1..Len(mains) /\ mains[i].pc = pc

\* lines 66-81 up to the await: m is the invocation after the first try
\* block, sub and txt are state.subscription and the status text it left,
\* wrote tells whether its catch block ran
SecondTry(i, m, sub, txt, wrote) ==
    LET parsed == JsonParse(JsonStringify(sub))
    IN  IF parsed.ok
        THEN /\ mains' = [mains EXCEPT ![i] =
                    [m EXCEPT !.pc = "awaitPost",
                              !.uid = <<userId>>,
                              !.body = <<JsonStringify(RegisterBody(userId, parsed.value))>>]]
             /\ text' = txt
             /\ lastWrite' = IF wrote THEN [text |-> txt, n |-> Len(arrived)]
                                      ELSE lastWrite
             /\ returned' = returned
        ELSE /\ mains' = [mains EXCEPT ![i] = Frame]
             /\ returned' = [i |-> i, failed |-> m.failed]
             /\ text' = Catch(parsed.error, txt)
             /\ lastWrite' = [text |-> Catch(parsed.error, txt), n |-> Len(arrived)]

\* lines 60-64 and on: an await of the first try block rejected
FirstTryFailed(i, error) ==
    /\ subscription' = subscription
    /\ detailsText' = detailsText
    /\ SecondTry(i, [mains[i] EXCEPT !.failed = Append(@, error.message)],
                 subscription, Catch(error, text), TRUE)

\* click on #initPushBtn: main runs to line 56, fetchVapidKeys is pending
MainStart(limit) ==
    /\ Len(mains) < limit
    /\ mains' = Append(mains, [Frame EXCEPT !.pc = "awaitKeys"])
    /\ UNCHANGED <<subscription, text, detailsText, userId, updates, sources,
                   arrived, lastWrite, returned, b64, worker>>

\* line 56 resolves; line 57 asks for permission
KeysResolved(i, k) ==
    /\ Awaiting(i, "awaitKeys")
    /\ mains' = [mains EXCEPT ![i].keys = k, ![i].pc = "awaitPermission"]
    /\ UNCHANGED <<subscription, text, detailsText, userId, updates, sources,
                   arrived, lastWrite, returned, b64, worker>>

\* the fetch of /vapid.json or resp.json() rejects
KeysRejected(i) ==
    /\ Awaiting(i, "awaitKeys")
    /\ FirstTryFailed(i, Err("TypeError", "Failed to fetch vapid.json"))
    /\ UNCHANGED <<userId, updates, sources, arrived, b64, worker>>

\* line 57 resolves (the answer is dropped); line 45 registers the worker
PermissionResolved(i) ==
    /\ Awaiting(i, "awaitPermission")
    /\ mains' = [mains EXCEPT ![i].pc = "awaitRegister"]
    /\ UNCHANGED <<subscription, text, detailsText, userId, updates, sources,
                   arrived, lastWrite, returned, b64, worker>>

PermissionRejected(i) ==
    /\ Awaiting(i, "awaitPermission")
    /\ FirstTryFailed(i, Err("TypeError", "Permission request failed"))
    /\ UNCHANGED <<userId, updates, sources, arrived, b64, worker>>

\* line 45 resolves; line 46 starts update() and drops its promise; lines
\* 47-50 decode the key and call pushManager.subscribe
RegisterResolved(i) ==
    /\ Awaiting(i, "awaitRegister")
    /\ updates' = [updates EXCEPT !.pending = @ + 1]
    /\ LET key == ApplicationServerKey(mains[i].keys)
       IN  IF key.ok
           THEN /\ mains' = [mains EXCEPT ![i].pc = "awaitSubscribe",
                                          ![i].keys = Undefined]
                /\ UNCHANGED <<subscription, text, detailsText, lastWrite, returned>>
           ELSE FirstTryFailed(i, key.error)
    /\ UNCHANGED <<userId, sources, arrived, b64, worker>>

RegisterRejected(i) ==
    /\ Awaiting(i, "awaitRegister")
    /\ FirstTryFailed(i, Err("TypeError", "Failed to register a ServiceWorker"))
    /\ UNCHANGED <<userId, updates, sources, arrived, b64, worker>>

\* line 47 resolves with s: lines 58-59, then lines 66-76 send the POST
SubscribeResolved(i, s) ==
    /\ Awaiting(i, "awaitSubscribe")
    /\ subscription' = StoredSubscription(subscription, s)
    /\ detailsText' = JsonStringify(subscription')
    /\ SecondTry(i, [mains[i] EXCEPT !.sub = <<s>>], subscription', text, FALSE)
    /\ UNCHANGED <<userId, updates, sources, arrived, b64, worker>>

SubscribeRejected(i) ==
    /\ Awaiting(i, "awaitSubscribe")
    /\ FirstTryFailed(i, Err("NotAllowedError", "Registration failed - permission denied"))
    /\ UNCHANGED <<userId, updates, sources, arrived, b64, worker>>

\* the POST /register resolves; the response is ignored
PostResolved(i) ==
    /\ Awaiting(i, "awaitPost")
    /\ mains' = [mains EXCEPT ![i] = Frame]
    /\ returned' = [i |-> i, failed |-> mains[i].failed]
    /\ UNCHANGED <<subscription, text, detailsText, userId, updates, sources,
                   arrived, lastWrite, b64, worker>>

\* the POST /register rejects: lines 77-81
PostRejected(i) ==
    /\ Awaiting(i, "awaitPost")
    /\ LET error == Err("TypeError", "Failed to fetch register")
       IN  /\ mains' = [mains EXCEPT ![i] = Frame]
           /\ returned' = [i |-> i, failed |-> Append(mains[i].failed, error.message)]
           /\ text' = Catch(error, text)
           /\ lastWrite' = [text |-> Catch(error, text), n |-> Len(arrived)]
    /\ UNCHANGED <<subscription, detailsText, userId, updates, sources, arrived,
                   b64, worker>>

\* a promise of registration.update() (line 46) settles; nothing handles it
UpdateResolved ==
    /\ updates.pending > 0
    /\ updates' = [updates EXCEPT !.pending = @ - 1]
    /\ UNCHANGED <<mains, subscription, text, detailsText, userId, sources,
                   arrived, lastWrite, returned, b64, worker>>

UpdateRejected ==
    /\ updates.pending > 0
    /\ updates' = [pending |-> updates.pending - 1, unhandled |-> updates.unhandled + 1]
    /\ UNCHANGED <<mains, subscription, text, detailsText, userId, sources,
                   arrived, lastWrite, returned, b64, worker>>

\* the user edits the #userId input
EditUserId(v) ==
    /\ v # userId
    /\ userId' = v
    /\ UNCHANGED <<mains, subscription, text, detailsText, updates, sources,
                   arrived, lastWrite, returned, b64, worker>>

\* click on #initSseBtn: line 85 opens an EventSource, line 86 sets onmessage
serverSentEvent ==
    /\ sources' = sources \cup {"/sse?user_id=" \o userId}
    /\ UNCHANGED <<mains, subscription, text, detailsText, userId, updates,
                   arrived, lastWrite, returned, b64, worker>>

\* a message event of an open EventSource: line 87
Message(src, data) ==
    /\ src \in sources
    /\ Len(arrived) < MaxMsgs
    /\ text' = OnMessage(text, data)
    /\ arrived' = Append(arrived, data)
    /\ UNCHANGED <<mains, subscription, detailsText, userId, updates, sources,
                   lastWrite, returned, b64, worker>>

(***************************************************************************)
(* Specifications.                                                         *)
(***************************************************************************)
\* the page with both buttons
Next ==
    \/ MainStart(MaxMainPage)
    \/ \E i \in 1..Len(mains), k \in VapidResponses : KeysResolved(i, k)
    \/ \E i \in 1..Len(mains) : KeysRejected(i)
    \/ \E i \in 1..Len(mains) : PermissionResolved(i)
    \/ \E i \in 1..Len(mains) : PermissionRejected(i)
    \/ \E i \in 1..Len(mains) : RegisterResolved(i)
    \/ \E i \in 1..Len(mains) : RegisterRejected(i)
    \/ \E i \in 1..Len(mains), s \in Subscriptions : SubscribeResolved(i, s)
    \/ \E i \in 1..Len(mains) : SubscribeRejected(i)
    \/ \E i \in 1..Len(mains) : PostResolved(i)
    \/ \E i \in 1..Len(mains) : PostRejected(i)
    \/ UpdateResolved
    \/ UpdateRejected
    \/ \E v \in UserIds : EditUserId(v)
    \/ serverSentEvent
    \/ \E src \in sources, data \in Msgs : Message(src, data)

Spec == Init /\ [][Next]_vars

\* the push flow alone, with more invocations of main
NextPush ==
    \/ MainStart(MaxMain)
    \/ \E i \in 1..Len(mains), k \in VapidResponses : KeysResolved(i, k)
    \/ \E i \in 1..Len(mains) : KeysRejected(i)
    \/ \E i \in 1..Len(mains) : PermissionResolved(i)
    \/ \E i \in 1..Len(mains) : PermissionRejected(i)
    \/ \E i \in 1..Len(mains) : RegisterResolved(i)
    \/ \E i \in 1..Len(mains) : RegisterRejected(i)
    \/ \E i \in 1..Len(mains), s \in Subscriptions : SubscribeResolved(i, s)
    \/ \E i \in 1..Len(mains) : SubscribeRejected(i)
    \/ \E i \in 1..Len(mains) : PostResolved(i)
    \/ \E i \in 1..Len(mains) : PostRejected(i)
    \/ UpdateResolved
    \/ UpdateRejected
    \/ \E v \in UserIds : EditUserId(v)

SpecPush == Init /\ [][NextPush]_vars

\* the background context
NextWorker ==
    \/ \E p \in Payloads : PushReceived(p)
    \/ \E e \in 1..Len(worker.events) : ShowResolved(e)
    \/ \E e \in 1..Len(worker.events) : ShowRejected(e)

SpecWorker == Init /\ [][NextWorker]_vars

\* the decoder on encoded byte sequences
InitDecoder == InitB64 /\ InitWorker /\ InitPage

NextB64 == Decode

SpecB64 == InitDecoder /\ [][NextB64]_vars

(***************************************************************************)
(* Properties.                                                             *)
(***************************************************************************)
Keys(o) == {o.props[i][1] : i \in 1..Len(o.props)}

\* the object a request body parses to
BodyOf(m) == JsonParse(m.body[1]).value

RECURSIVE JoinedByNewlines(_)
JoinedByNewlines(msgs) ==
    IF msgs = <<>> THEN ""
    ELSE IF Len(msgs) = 1 THEN msgs[1]
    ELSE msgs[1] \o "\n" \o JoinedByNewlines(Tail(msgs))

RECURSIVE Lines(_)
Lines(msgs) ==
    IF msgs = <<>> THEN "" ELSE "\n" \o Head(msgs) \o Lines(Tail(msgs))

\* C1 as stated: once an EventSource is open, the status text is the
\* messages delivered so far joined by newlines, in arrival order.
C1_TextIsMessagesJoined ==
    sources # {} => text = JoinedByNewlines(arrived)

\* C1 amended: the status text is the text last written by a catch block of
\* main (the empty text when none has run) followed by, for each message
\* delivered since then, in arrival order, a newline and the message.
C1_TextIsLastWritePlusLines ==
    text = lastWrite.text \o Lines(SubSeq(arrived, lastWrite.n + 1, Len(arrived)))

\* two different messages have arrived and both are on the page, in order
C1_TwoMessagesShown ==
    /\ Len(arrived) = 2
    /\ arrived[1] # arrived[2]
    /\ text = "\n" \o arrived[1] \o "\n" \o arrived[2]

\* C2: the body of the POST /register of an invocation that obtained a
\* subscription holds user_id, with the input's value read when the body was
\* built, and every field of that subscription with its value, and no other
\* field.
C2_BodyIsUserIdPlusSubscription ==
    \A i \in 1..Len(mains) :
        mains[i].sub # <<>> /\ mains[i].body # <<>> =>
            LET sub == mains[i].sub[1]
                body == BodyOf(mains[i])
            IN  /\ mains[i].body[1].t = "json"
                /\ Keys(body) = {"user_id"} \cup Keys(sub)
                /\ Len(body.props) = 1 + Len(sub.props)
                /\ Get(body, "user_id") = Str(mains[i].uid[1])
                /\ \A k \in Keys(sub) : Get(body, k) = Get(sub, k)

\* a POST is in flight whose body was built with a typed user id
C2_PostSentWithTypedUserId ==
    \E i \in 1..Len(mains) :
        /\ mains[i].pc = "awaitPost"
        /\ mains[i].sub # <<>>
        /\ mains[i].uid = <<"u1">>
        /\ Get(BodyOf(mains[i]), "endpoint") = Str("e2")

\* C3: when an invocation of main returns after one of its awaited calls
\* failed, the status text is the message of such a failure.
C3_FailureMessageShown ==
    [][returned' # returned /\ returned'.failed # <<>>
          => text' \in Range(returned'.failed)]_vars

\* C4: no promise rejection is left unhandled.
C4_NoUnhandledRejection == updates.unhandled = 0

\* the entries of a sequence of the worker that belong to event e
Of(seq, e) == {i \in 1..Len(seq) : seq[i].ev = e}

\* C5: a push event whose payload is absent or no JSON object, or whose
\* display request fails, leaves no unhandled failure: its error is logged
\* once, no notification is shown for it, and no second request is made.
C5_FailuresCaughtAndLogged ==
    /\ worker.unhandled = <<>>
    /\ \A e \in 1..Len(worker.events) :
        LET ev == worker.events[e]
        IN  /\ ~WellFormed(ev.payload) =>
                  /\ ev.pc = "done"
                  /\ Cardinality(Of(worker.log, e)) = 1
                  /\ Of(worker.shown, e) = {}
                  /\ Of(worker.requests, e) = {}
            /\ WellFormed(ev.payload) /\ ev.pc = "done" /\ Of(worker.shown, e) = {} =>
                  /\ Cardinality(Of(worker.log, e)) = 1
                  /\ Cardinality(Of(worker.requests, e)) = 1

\* a malformed payload and a failed display have both been handled
C5_MalformedAndFailedDisplay ==
    \E e1, e2 \in 1..Len(worker.events) :
        /\ worker.events[e1].payload.kind = "malformed"
        /\ WellFormed(worker.events[e2].payload)
        /\ worker.events[e2].pc = "done"
        /\ Of(worker.shown, e2) = {}
        /\ Of(worker.log, e1) # {}
        /\ Of(worker.log, e2) # {}

\* C6: a push event carrying {title, body} has exactly one display request,
\* with its title and its body; there are never more display requests than
\* push events.
C6_OneRequestPerEvent ==
    /\ Len(worker.requests) <= Len(worker.events)
    /\ \A e \in 1..Len(worker.events) :
        LET ev == worker.events[e]
        IN  WellFormed(ev.payload) =>
              /\ Cardinality(Of(worker.requests, e)) = 1
              /\ \A r \in Of(worker.requests, e) :
                    /\ worker.requests[r].title = Get(ev.payload.value, "title")
                    /\ worker.requests[r].body = Get(ev.payload.value, "body")

\* two events with different notifications have each been requested
C6_TwoDifferentRequests ==
    /\ Len(worker.requests) = 2
    /\ worker.requests[1].title # worker.requests[2].title
    /\ Len(worker.shown) = 1

\* C7: an invocation sends POST /register only after it has itself obtained
\* a subscription, and the body carries that subscription.
C7_PostOnlyAfterOwnSubscription ==
    \A i \in 1..Len(mains) :
        mains[i].body # <<>> =>
            /\ mains[i].sub # <<>>
            /\ \A k \in Keys(mains[i].sub[1]) :
                  Get(BodyOf(mains[i]), k) = Get(mains[i].sub[1], k)

\* C8: decoding the base64url encoding of a byte sequence, padded or not,
\* gives back the byte sequence.
C8_DecodeInvertsEncode ==
    b64.stage = "decoded" =>
        /\ b64.ok
        /\ Len(b64.output) = Len(b64.bytes)
        /\ \A i \in 1..Len(b64.bytes) : b64.output[i] = b64.bytes[i]

\* an unpadded encoding that uses both url characters has been decoded
C8_UrlCharactersDecoded ==
    /\ b64.stage = "decoded"
    /\ b64.bytes = <<251, 255>>
    /\ ~b64.padded
    /\ b64.input = <<"-", "_", "8">>

\* C9: no step of the push flow changes the status text the stream flow has
\* accumulated, and no step of the stream flow changes what the push flow
\* keeps.
C9_FlowsShareNothing ==
    [][/\ mains' # mains /\ arrived # <<>> => text' = text
       /\ arrived' # arrived \/ sources' # sources =>
             UNCHANGED <<mains, subscription, detailsText, userId, updates>>]_vars

\* C10: an invocation whose subscribe call succeeded has a POST /register in
\* flight whose body carries the subscription returned to that invocation,
\* whatever other invocations stored in state.subscription.
C10_BodyCarriesOwnSubscription ==
    \A i \in 1..Len(mains) :
        mains[i].sub # <<>> =>
            /\ mains[i].body # <<>>
            /\ Get(BodyOf(mains[i]), "endpoint") = Get(mains[i].sub[1], "endpoint")
            /\ Get(BodyOf(mains[i]), "keys") = Get(mains[i].sub[1], "keys")
            /\ Get(BodyOf(mains[i]), "expirationTime")
                  = Get(mains[i].sub[1], "expirationTime")

\* two POSTs are in flight, and state.subscription no longer holds the
\* subscription of the first
C10_SubscriptionOverwrittenMeanwhile ==
    \E i, j \in 1..Len(mains) :
        /\ mains[i].pc = "awaitPost" /\ mains[j].pc = "awaitPost"
        /\ mains[i].sub # <<>> /\ mains[j].sub # <<>>
        /\ mains[i].sub # mains[j].sub
        /\ subscription # mains[i].sub[1]

====
